---- MODULE Spec2Model ----
(***************************************************************************)
(* Model of the NRes archive codec of parkantools:                         *)
(*   nres/nres_archiver.py  header/TOC codec, archive, unarchive           *)
(*   parkanio/fileio.py     can_modify_file, create_directory_if_needed    *)
(*   nres/args.py           the unarchive command                          *)
(*                                                                         *)
(* Files are sequences of bytes (0..255).  A path is a sequence of         *)
(* components, each component a sequence of bytes.  Text decoded from a    *)
(* fixed-width field is represented by its UTF-8 bytes.                    *)
(***************************************************************************)
EXTENDS Integers, Sequences, FiniteSets, TLC

---------------------------------------------------------------------------
\* Bounds of the model
MaxFiles == 2       \* longest list of paths handed to one command
MaxPayload == 4     \* longest input file, in bytes
BufferSize == 19    \* capacity of the buffered writer behind open(..., 'wb')

\* Constants of the program
NresArchiveMetadata_METADATA_SIZE == 16
ArchivedFileMetadata_METADATA_SIZE == 64
SIGNATURE == 1936020046
VERSION == 256
TYPE_WIDTH == 12
NAME_WIDTH == 36
TYPE_READ == 4

---------------------------------------------------------------------------
\* Bytes and fixed-width little-endian integers (struct 'I')

Rep(b, n) == [i \in 1..n |-> b]

Slice(s, from, to) ==
    \* Python s[from:to] on a byte string, 0-based, clipped at the end
    IF from >= Len(s) \/ to <= from THEN <<>>
    ELSE SubSeq(s, from + 1, IF to > Len(s) THEN Len(s) ELSE to)

PackU32(n) ==
    << n % 256, (n \div 256) % 256, (n \div 65536) % 256,
       (n \div 16777216) % 256 >>

UnpackU32(s, at) ==
    s[at + 1] + 256 * s[at + 2] + 65536 * s[at + 3] + 16777216 * s[at + 4]

PackS(s, width) ==
    \* struct 'Ns': truncated or NUL-padded to exactly width bytes
    IF Len(s) >= width THEN SubSeq(s, 1, width)
    ELSE s \o Rep(0, width - Len(s))

RStripNul(s) ==
    \* str.rstrip('\x00'): everything up to the last byte that is not NUL
    SubSeq(s, 1, CHOOSE i \in 0..Len(s) :
                    /\ i = 0 \/ s[i] # 0
                    /\ \A j \in (i + 1)..Len(s) : s[j] = 0)

IsCont(s, i, lo, hi) == i <= Len(s) /\ s[i] >= lo /\ s[i] <= hi

RECURSIVE Utf8From(_, _)
Utf8From(s, i) ==
    \* well-formed UTF-8 from position i on: bytes.decode('utf-8') succeeds
    IF i > Len(s) THEN TRUE
    ELSE LET b == s[i] IN
         IF b < 128 THEN Utf8From(s, i + 1)
         ELSE IF b >= 194 /\ b <= 223
              THEN IsCont(s, i + 1, 128, 191) /\ Utf8From(s, i + 2)
         ELSE IF b >= 224 /\ b <= 239
              THEN /\ IsCont(s, i + 1, IF b = 224 THEN 160 ELSE 128,
                                       IF b = 237 THEN 159 ELSE 191)
                   /\ IsCont(s, i + 2, 128, 191)
                   /\ Utf8From(s, i + 3)
         ELSE IF b >= 240 /\ b <= 244
              THEN /\ IsCont(s, i + 1, IF b = 240 THEN 144 ELSE 128,
                                       IF b = 244 THEN 143 ELSE 191)
                   /\ IsCont(s, i + 2, 128, 191)
                   /\ IsCont(s, i + 3, 128, 191)
                   /\ Utf8From(s, i + 4)
         ELSE FALSE

Utf8Valid(s) ==
    \* ASCII is well-formed; anything else is walked sequence by sequence
    (\A i \in 1..Len(s) : s[i] < 128) \/ Utf8From(s, 1)

---------------------------------------------------------------------------
\* The file system: a function from the paths that exist to what is there

INDIR == << <<105>> >>                  \* directory "i", holding the inputs
OUTDIR == << <<111>> >>                 \* directory "o", args.output_directory
LongName == Rep(98, NAME_WIDTH + 1)  \* a base name one byte wider than the field
InNames == { <<97>>, LongName }
ArchNames == { <<120, 46, 108>>, <<121, 46, 108>> }     \* "x.l", "y.l"
InPaths == { Append(INDIR, n) : n \in InNames }
ArchPaths == { Append(OUTDIR, n) : n \in ArchNames }
Stale == <<79, 76, 68>>              \* content of a file left by an earlier run

Payload(first, n) == [i \in 1..n |-> IF i = 1 THEN first ELSE 65 + i]
Contents ==
    { Payload(65, n) : n \in 3..MaxPayload } \cup { Payload(255, MaxPayload) }

File(data) == [kind |-> "file", data |-> data]
Dir == [kind |-> "dir", data |-> <<>>]

Exists(f, p) == p \in DOMAIN f
IsFile(f, p) == p \in DOMAIN f /\ f[p].kind = "file"
IsDir(f, p) == p \in DOMAIN f /\ f[p].kind = "dir"
Parent(p) == SubSeq(p, 1, Len(p) - 1)
HasNul(c) == \E i \in 1..Len(c) : c[i] = 0
PathHasNul(p) == \E i \in 1..Len(p) : HasNul(p[i])

Put(f, p, v) == (p :> v) @@ f

JoinPath(p, c) ==
    \* Path(p).joinpath(c): an empty component names p itself
    IF c = <<>> THEN p ELSE Append(p, c)

name(path) == path[Len(path)]

RECURSIVE RFind(_, _, _)
RFind(s, b, i) ==
    \* 0-based index of the last b in s[0:i], or -1
    IF i = 0 THEN -1 ELSE IF s[i] = b THEN i - 1 ELSE RFind(s, b, i - 1)

name_without_extension(path) ==
    LET n == name(path)
        i == RFind(n, 46, Len(n))
    IN  IF 0 < i /\ i < Len(n) - 1 THEN SubSeq(n, 1, i) ELSE n

\* Path(path).exists without the call: a bound method, always truthy
PathExistsAttr == TRUE

can_modify_file_forced(f, path, force) ==
    \* the force flag is not consulted
    IF IsDir(f, path) THEN FALSE ELSE TRUE

can_modify_file(f, path, force) ==
    IF ~PathExistsAttr THEN TRUE
    ELSE IF IsFile(f, path) THEN force
    ELSE IF IsDir(f, path) THEN FALSE
    ELSE TRUE

create_directory_if_needed(f, path, dry_run) ==
    \* [fs, status]; mkdir(parents=True) below an existing directory
    IF IsFile(f, path) THEN [fs |-> f, status |-> "ValueError"]
    ELSE IF ~IsDir(f, path) /\ ~dry_run
         THEN [fs |-> Put(f, path, Dir), status |-> "ok"]
    ELSE [fs |-> f, status |-> "ok"]

OpenForWrite(f, p) ==
    \* the outcome of open(p, 'wb'): "ok" creates or truncates p
    IF PathHasNul(p) THEN "ValueError"
    ELSE IF ~IsDir(f, Parent(p)) \/ IsDir(f, p) THEN "OSError"
    ELSE "ok"

---------------------------------------------------------------------------
\* The buffered writer behind open(out_path, 'wb'): vis is what the file
\* holds on disk, buf what is still held in memory.

BufWrite(w, data) ==
    IF Len(data) <= BufferSize - Len(w.buf)
    THEN [vis |-> w.vis, buf |-> w.buf \o data]
    ELSE IF Len(data) > BufferSize
         THEN [vis |-> w.vis \o w.buf \o data, buf |-> <<>>]
    ELSE [vis |-> w.vis \o w.buf, buf |-> data]

TellRaw(w) == Len(w.vis)     \* the position of the raw file, not of the writer

Tell(w) == Len(w.vis) + Len(w.buf)

Close(w) == w.vis \o w.buf

---------------------------------------------------------------------------
\* nres_archiver.py: the codec

HeaderBytes(file_count, archive_size) ==
    PackU32(SIGNATURE) \o PackU32(VERSION) \o PackU32(file_count)
        \o PackU32(archive_size)

EntryBytes(e) ==
    PackS(e.file_type, TYPE_WIDTH) \o PackU32(e.file_size) \o PackU32(0)
        \o PackS(e.file_name, NAME_WIDTH) \o PackU32(e.file_offset)
        \o PackU32(e.file_id)

EntryDecodable(b) ==
    /\ Utf8Valid(SubSeq(b, 1, TYPE_WIDTH))
    /\ Utf8Valid(SubSeq(b, TYPE_WIDTH + 9, TYPE_WIDTH + 8 + NAME_WIDTH))

EntryDecode(b) ==
    [ file_type |-> RStripNul(SubSeq(b, 1, TYPE_WIDTH)),
      file_size |-> UnpackU32(b, TYPE_WIDTH),
      file_name |-> RStripNul(SubSeq(b, TYPE_WIDTH + 9,
                                     TYPE_WIDTH + 8 + NAME_WIDTH)),
      file_offset |-> UnpackU32(b, TYPE_WIDTH + 8 + NAME_WIDTH),
      file_id |-> UnpackU32(b, TYPE_WIDTH + 12 + NAME_WIDTH) ]

HeaderDecode(b) ==
    \* [status, file_count, archive_size]
    IF Len(b) # NresArchiveMetadata_METADATA_SIZE
    THEN [status |-> "ValueError", file_count |-> 0, archive_size |-> 0]
    ELSE IF UnpackU32(b, 0) # SIGNATURE
    THEN [status |-> "ValueError", file_count |-> 0, archive_size |-> 0]
    ELSE [status |-> "ok", file_count |-> UnpackU32(b, 8),
          archive_size |-> UnpackU32(b, 12)]

TocEntryBuffer(buffer, i) ==
    SubSeq(buffer, (i - 1) * ArchivedFileMetadata_METADATA_SIZE + 1,
           i * ArchivedFileMetadata_METADATA_SIZE)

decode_table_of_contents(buffer, file_count) ==
    \* [status, entries]
    IF Len(buffer) # ArchivedFileMetadata_METADATA_SIZE * file_count
    THEN [status |-> "ValueError", entries |-> <<>>]
    ELSE IF \E i \in 1..file_count : ~EntryDecodable(TocEntryBuffer(buffer, i))
    THEN [status |-> "ValueError", entries |-> <<>>]
    ELSE [status |-> "ok",
          entries |-> [i \in 1..file_count |->
                          EntryDecode(TocEntryBuffer(buffer, i))] \o <<>>]

---------------------------------------------------------------------------
\* nres_archiver.unpack_file and nres_archiver.unarchive

unpack_file(f, metadata, arch_data, out_dir, archive_name, dry_run, force) ==
    \* [fs, status]
    LET full_out_path ==
            JoinPath(JoinPath(out_dir, archive_name), metadata.file_name)
        file_buffer ==
            Slice(arch_data, metadata.file_offset,
                  metadata.file_offset + metadata.file_size)
    IN  IF Len(file_buffer) # metadata.file_size
        THEN [fs |-> f, status |-> "ValueError"]
        ELSE IF ~can_modify_file(f, full_out_path, force)
        THEN [fs |-> f, status |-> "ok"]
        ELSE IF dry_run
        THEN [fs |-> f, status |-> "ok"]
        ELSE IF OpenForWrite(f, full_out_path) # "ok"
        THEN [fs |-> f, status |-> OpenForWrite(f, full_out_path)]
        ELSE [fs |-> Put(f, full_out_path, File(file_buffer)),
              status |-> "ok"]

RECURSIVE UnpackLoop(_, _, _, _, _, _, _, _)
UnpackLoop(f, toc, i, arch_data, out_dir, arch_name, dry_run, force) ==
    \* for entry in toc: unpack_file(...); the first exception ends the loop
    IF i > Len(toc) THEN [fs |-> f, status |-> "ok"]
    ELSE LET r == unpack_file(f, toc[i], arch_data, out_dir, arch_name,
                              dry_run, force)
         IN  IF r.status # "ok" THEN r
             ELSE UnpackLoop(r.fs, toc, i + 1, arch_data, out_dir,
                             arch_name, dry_run, force)

ReadToc(arch_data) ==
    \* unarchive up to the loop: [status, entries]
    LET metadata ==
            HeaderDecode(Slice(arch_data, 0, NresArchiveMetadata_METADATA_SIZE))
        toc_size == metadata.file_count * ArchivedFileMetadata_METADATA_SIZE
        toc_offset == metadata.archive_size - toc_size
        toc_buffer == Slice(arch_data, toc_offset, toc_offset + toc_size)
    IN  IF metadata.status # "ok"
        THEN [status |-> metadata.status, entries |-> <<>>]
        ELSE IF toc_offset < 0          \* seek to a negative offset
        THEN [status |-> "OSError", entries |-> <<>>]
        ELSE decode_table_of_contents(toc_buffer, metadata.file_count)

unarchive(f, archive_path, out_dir, arch_name, dry_run, force) ==
    \* [fs, status]
    IF ~IsFile(f, archive_path) THEN [fs |-> f, status |-> "OSError"]
    ELSE LET arch_data == f[archive_path].data
             toc == ReadToc(arch_data)
         IN  IF toc.status # "ok" THEN [fs |-> f, status |-> toc.status]
             ELSE UnpackLoop(f, toc.entries, 1, arch_data, out_dir, arch_name,
                             dry_run, force)

---------------------------------------------------------------------------
\* nres_archiver.archive

ReadInput(f, w, path, out_path) ==
    \* what open(path, 'rb') sees while out_path is open for writing
    IF path = out_path THEN w.vis ELSE f[path].data

RECURSIVE ArchiveLoop(_, _, _, _, _, _)
ArchiveLoop(f, file_paths, out_path, i, w, toc_entries) ==
    \* [w, toc_entries, status]
    IF i > Len(file_paths)
    THEN [w |-> w, toc_entries |-> toc_entries, status |-> "ok"]
    ELSE LET path == file_paths[i]
             data == ReadInput(f, w, path, out_path)
             toc_entry ==
                 [ file_type |-> SubSeq(data, 1, TYPE_READ),
                   file_size |-> Len(data),
                   file_name |-> name(path),
                   file_offset |-> Tell(w),
                   file_id |-> i - 1 ]
         IN  IF Len(data) < TYPE_READ
             THEN [w |-> w, toc_entries |-> toc_entries,
                   status |-> "StructError"]
             ELSE ArchiveLoop(f, file_paths, out_path, i + 1,
                              BufWrite(w, data),
                              Append(toc_entries, toc_entry))

RECURSIVE WriteToc(_, _, _)
WriteToc(w, toc_entries, i) ==
    IF i > Len(toc_entries) THEN w
    ELSE WriteToc(BufWrite(w, EntryBytes(toc_entries[i])), toc_entries, i + 1)

RECURSIVE SumSizes(_, _, _)
SumSizes(f, file_paths, i) ==
    IF i > Len(file_paths) THEN 0
    ELSE Len(f[file_paths[i]].data) + SumSizes(f, file_paths, i + 1)

archive(f, file_paths, out_path, dry_run, force) ==
    \* [fs, status]; the paths given are regular files or missing
    IF ~can_modify_file(f, out_path, force)
    THEN [fs |-> f, status |-> "skipped"]
    ELSE IF \E i \in 1..Len(file_paths) : ~IsFile(f, file_paths[i])
    THEN [fs |-> f, status |-> "OSError"]
    ELSE IF OpenForWrite(f, out_path) # "ok"
    THEN [fs |-> f, status |-> OpenForWrite(f, out_path)]
    ELSE
    LET file_count == Len(file_paths)
        total_size ==
            NresArchiveMetadata_METADATA_SIZE + SumSizes(f, file_paths, 1)
                + file_count * ArchivedFileMetadata_METADATA_SIZE
        w0 == BufWrite([vis |-> <<>>, buf |-> <<>>],
                       HeaderBytes(file_count, total_size))
        r == ArchiveLoop(f, file_paths, out_path, 1, w0, <<>>)
        w1 == IF r.status = "ok" THEN WriteToc(r.w, r.toc_entries, 1) ELSE r.w
    IN  [fs |-> Put(f, out_path, File(Close(w1))), status |-> r.status]

---------------------------------------------------------------------------
\* args.py: the unarchive command

RECURSIVE UnarchiveLoop(_, _, _, _, _)
UnarchiveLoop(f, file_paths, i, dry_run, force) ==
    \* args.unarchive's loop: [fs, status, processed]; only ValueError is
    \* caught, any other exception leaves the loop
    IF i > Len(file_paths)
    THEN [fs |-> f, status |-> "ok", processed |-> i - 1]
    ELSE LET archive_path == file_paths[i]
             arch_name == name_without_extension(archive_path)
             d == create_directory_if_needed(
                      f, JoinPath(OUTDIR, arch_name), dry_run)
             r == IF d.status # "ok" THEN d
                  ELSE unarchive(d.fs, archive_path, OUTDIR, arch_name,
                                 dry_run, force)
         IN  IF r.status \in {"ok", "ValueError"}
             THEN UnarchiveLoop(r.fs, file_paths, i + 1, dry_run, force)
             ELSE [fs |-> r.fs, status |-> r.status, processed |-> i]

unarchive_command(f, files, dry_run, force) ==
    \* args.unarchive: the paths the patterns match, then the patterns
    UnarchiveLoop(f, SelectSeq(files, LAMBDA p : IsFile(f, p)) \o files, 1,
                  dry_run, force)

---------------------------------------------------------------------------
\* The state machine.  A behaviour is one session against a file system left
\* by earlier sessions: at most one archive is built, at most one archive on
\* disk is then damaged, and at most one unarchive call or command follows.

VARIABLES fs, last, stage

vars == <<fs, last, stage>>

PathLists(S, lo) ==
    \* the lists of at least lo and at most MaxFiles paths of S, each named once
    { l \in UNION { [1..n -> S] : n \in lo..MaxFiles } :
        \A i, j \in 1..Len(l) : i # j => l[i] # l[j] }

Outcome(op, paths, out, dry_run, force, status, processed) ==
    [ op |-> op, paths |-> paths, out |-> out, dry_run |-> dry_run,
      force |-> force, status |-> status, processed |-> processed ]

ShortPath == Append(INDIR, <<97>>)          \* "i/a"
LongPath == Append(INDIR, LongName)         \* "i/bbb...b"
XPath == Append(OUTDIR, <<120, 46, 108>>)   \* "o/x.l"
YPath == Append(OUTDIR, <<121, 46, 108>>)   \* "o/y.l"
StaleDir == JoinPath(OUTDIR, <<120>>)       \* "o/x", where x.l is unpacked
StalePath == JoinPath(StaleDir, <<97>>)     \* "o/x/a"

Inputs(short) ==
    [ p \in {INDIR, OUTDIR, LongPath}
              \cup (IF short = <<>> THEN {} ELSE {ShortPath}) |->
        IF p = ShortPath THEN File(short)
        ELSE IF p = LongPath THEN File(Payload(87, TYPE_READ))
        ELSE Dir ]

Archived(f) ==
    \* both archives were built from the long-named input by an earlier session
    archive(archive(f, <<LongPath>>, XPath, FALSE, FALSE).fs,
            <<LongPath>>, YPath, FALSE, FALSE).fs

Unpacked(f) ==
    \* and an earlier x.l was unpacked, leaving o/x/a behind
    Put(Put(Archived(f), StaleDir, Dir), StalePath, File(Stale))

Init ==
    /\ \E short \in Contents \cup {<<>>},
          history \in {"fresh", "archived", "unpacked"} :
         fs = IF history = "fresh" THEN Inputs(short)
              ELSE IF history = "archived" THEN Archived(Inputs(short))
              ELSE Unpacked(Inputs(short))
    /\ last = Outcome("none", <<>>, <<>>, FALSE, FALSE, "ok", 0)
    /\ stage = 0

\* nres_archiver.archive(file_paths, out_path, dry_run, force)
Archive ==
    /\ stage = 0
    /\ \E out_path \in {XPath}, dry_run \in BOOLEAN, force \in BOOLEAN :
         \E file_paths \in PathLists(InPaths \cup {out_path}, 0) :
           LET r == archive(fs, file_paths, out_path, dry_run, force)
           IN  /\ fs' = r.fs
               /\ last' = Outcome("archive", file_paths, out_path, dry_run,
                                  force, r.status, 0)
    /\ stage' = 1

\* The environment: an archive on disk is damaged between two commands
Pokes(data) ==
    { <<0, 0>>, <<8, 0>>, <<8, 64>>, <<12, 0>>, <<12, 64>> } \cup
    { << Len(data) - k * ArchivedFileMetadata_METADATA_SIZE + TYPE_WIDTH,
         200 >> : k \in 1..MaxFiles }

Poked(data, at, v) ==
    \* data with the 32-bit field at offset at overwritten by v
    SubSeq(data, 1, at) \o PackU32(v) \o SubSeq(data, at + 5, Len(data))

Poke ==
    /\ stage <= 1
    /\ \E p \in ArchPaths :
         /\ IsFile(fs, p)
         /\ \E k \in Pokes(fs[p].data) :
              /\ k[1] >= 0 /\ k[1] + 4 <= Len(fs[p].data)
              /\ fs' = Put(fs, p, File(Poked(fs[p].data, k[1], k[2])))
         /\ last' = Outcome("poke", <<p>>, <<>>, FALSE, FALSE, "ok", 0)
    /\ stage' = 2

Truncate ==
    /\ stage <= 1
    /\ \E p \in ArchPaths :
         /\ IsFile(fs, p)
         /\ Len(fs[p].data) > 0
         /\ fs' = Put(fs, p, File(SubSeq(fs[p].data, 1, Len(fs[p].data) - 1)))
         /\ last' = Outcome("truncate", <<p>>, <<>>, FALSE, FALSE, "ok", 0)
    /\ stage' = 2

\* nres_archiver.unarchive(archive_path, out_dir, arch_name, "", dry_run, force)
Unarchive ==
    /\ stage <= 2
    /\ \E archive_path \in ArchPaths, dry_run \in BOOLEAN, force \in BOOLEAN :
         LET r == unarchive(fs, archive_path, OUTDIR,
                            name_without_extension(archive_path), dry_run,
                            force)
         IN  /\ fs' = r.fs
             /\ last' = Outcome("unarchive", <<archive_path>>, OUTDIR,
                                dry_run, force, r.status, 0)
    /\ stage' = 3

\* the unarchive command: args.unarchive(args)
UnarchiveCommand ==
    /\ stage <= 2
    /\ \E files \in PathLists(ArchPaths, 1),
          dry_run \in BOOLEAN, force \in BOOLEAN :
         LET r == unarchive_command(fs, files, dry_run, force)
         IN  /\ fs' = r.fs
             /\ last' = Outcome("unarchive_command", files, OUTDIR, dry_run,
                                force, r.status, r.processed)
    /\ stage' = 3

NextArchive == Archive

SpecArchive == Init /\ [][NextArchive]_vars

Next ==
    \/ Archive
    \/ Poke
    \/ Truncate
    \/ Unarchive
    \/ UnarchiveCommand

Spec == Init /\ [][Next]_vars

---------------------------------------------------------------------------
\* Reading the outcome of the last command off the state

ArchiveOk == last.op = "archive" /\ last.status = "ok"

TocStart(data, n) == Len(data) - n * ArchivedFileMetadata_METADATA_SIZE

WrittenEntry(data, n, i) ==
    \* the i-th of the n records at the end of an archive
    EntryDecode(SubSeq(data,
        TocStart(data, n) + (i - 1) * ArchivedFileMetadata_METADATA_SIZE + 1,
        TocStart(data, n) + i * ArchivedFileMetadata_METADATA_SIZE))

RECURSIVE SumEntrySizes(_, _, _)
SumEntrySizes(data, n, i) ==
    IF i = 0 THEN 0
    ELSE WrittenEntry(data, n, i).file_size + SumEntrySizes(data, n, i - 1)

WellFormed(data, e) ==
    Len(Slice(data, e.file_offset, e.file_offset + e.file_size)) = e.file_size

EntryPayload(data, e) ==
    Slice(data, e.file_offset, e.file_offset + e.file_size)

PlainName(c) == c # <<>> /\ ~HasNul(c)

UnpackDir(archive_path) ==
    JoinPath(OUTDIR, name_without_extension(archive_path))

Dest(archive_path, e) == JoinPath(UnpackDir(archive_path), e.file_name)

\* C1: archive(inputs) followed by unarchive succeeds and gives back, in
\* order, entries with the inputs' base names and sizes and files with the
\* inputs' bytes.
C1_RoundTrip ==
    (ArchiveOk /\ \A i \in 1..Len(last.paths) : last.paths[i] # last.out) =>
        LET arch == last.out
            toc == ReadToc(fs[arch].data)
            d == create_directory_if_needed(fs, UnpackDir(arch), FALSE)
            r == unarchive(d.fs, arch, OUTDIR, name_without_extension(arch),
                           FALSE, TRUE)
        IN  /\ r.status = "ok"
            /\ toc.status = "ok"
            /\ Len(toc.entries) = Len(last.paths)
            /\ \A i \in 1..Len(last.paths) :
                 LET src == last.paths[i]
                     dest == JoinPath(UnpackDir(arch), name(src))
                 IN  /\ toc.entries[i].file_name = name(src)
                     /\ toc.entries[i].file_size = Len(fs[src].data)
                     /\ IsFile(r.fs, dest)
                     /\ r.fs[dest].data = fs[src].data

\* C2: when unarchive meets an entry whose bytes are not all there, every
\* other well-formed entry of the same table of contents, also a later one,
\* is still unpacked.
C2_ShortReadIsPerEntry ==
    [][ (last'.op = "unarchive" /\ ~last'.dry_run /\ last'.force
            /\ IsFile(fs, last'.paths[1])) =>
          LET arch == last'.paths[1]
              data == fs[arch].data
              toc == ReadToc(data)
          IN  ( /\ toc.status = "ok"
                /\ IsDir(fs, UnpackDir(arch))
                /\ \E i \in 1..Len(toc.entries) : ~WellFormed(data, toc.entries[i]) )
              => \A j \in 1..Len(toc.entries) :
                   ( /\ WellFormed(data, toc.entries[j])
                     /\ PlainName(toc.entries[j].file_name)
                     /\ \A k \in (j + 1)..Len(toc.entries) :
                          toc.entries[k].file_name # toc.entries[j].file_name )
                   => /\ IsFile(fs', Dest(arch, toc.entries[j]))
                      /\ fs'[Dest(arch, toc.entries[j])].data
                           = EntryPayload(data, toc.entries[j])
      ]_vars

\* C3: with dry_run set no command creates or changes a file or directory.
C3_DryRunWritesNothing ==
    [][ last'.dry_run => fs' = fs ]_vars

\* C4: an archive() that fails on a missing or too short input has not
\* created, truncated or written the file at out_path.
C4_FailedBuildIsAtomic ==
    [][ (last'.op = "archive" /\ last'.status \in {"OSError", "StructError"}) =>
          /\ Exists(fs', last'.out) = Exists(fs, last'.out)
          /\ Exists(fs, last'.out) => fs'[last'.out] = fs[last'.out]
      ]_vars

\* C5: the unarchive command goes through its whole list of archives, also
\* past one that fails.
C5_BatchContinues ==
    [][ last'.op = "unarchive_command" =>
          last'.processed =
              Len(SelectSeq(last'.paths, LAMBDA p : IsFile(fs, p)))
                  + Len(last'.paths)
      ]_vars

\* C6: the archive_size written in the header of a built archive is
\* 16 + the sum of the entries' file_size + N * 64, and is the length of
\* the archive.
C6_HeaderInvariant ==
    ArchiveOk =>
        LET data == fs[last.out].data
            n == Len(last.paths)
        IN  /\ UnpackU32(data, 12) =
                 NresArchiveMetadata_METADATA_SIZE + SumEntrySizes(data, n, n)
                     + n * ArchivedFileMetadata_METADATA_SIZE
            /\ UnpackU32(data, 12) = Len(data)

\* C7: in a built archive entry i (file_id i, from 0, in input order) starts
\* at 16 + the sizes of the entries before it and holds the bytes of input i,
\* and the last entry ends where the table of contents starts.
C7_OffsetInvariant ==
    ArchiveOk =>
        LET data == fs[last.out].data
            n == Len(last.paths)
        IN  /\ \A i \in 1..n :
                 LET e == WrittenEntry(data, n, i)
                 IN  /\ e.file_id = i - 1
                     /\ e.file_offset =
                          NresArchiveMetadata_METADATA_SIZE
                              + SumEntrySizes(data, n, i - 1)
                     /\ last.paths[i] # last.out =>
                          EntryPayload(data, e) = fs[last.paths[i]].data
            /\ n > 0 =>
                 WrittenEntry(data, n, n).file_offset
                     + WrittenEntry(data, n, n).file_size = TocStart(data, n)

C7_Witness ==
    /\ ArchiveOk
    /\ Len(last.paths) = 2
    /\ last.paths[1] # last.paths[2]
    /\ WrittenEntry(fs[last.out].data, 2, 2).file_offset
         > NresArchiveMetadata_METADATA_SIZE

Extractable(f, arch) ==
    /\ IsFile(f, arch)
    /\ ReadToc(f[arch].data).status = "ok"
    /\ IsDir(f, UnpackDir(arch))
    /\ \A i \in 1..Len(ReadToc(f[arch].data).entries) :
         /\ WellFormed(f[arch].data, ReadToc(f[arch].data).entries[i])
         /\ PlainName(ReadToc(f[arch].data).entries[i].file_name)

\* C8: without force no file that exists is opened for writing or changed:
\* archive() leaves an existing out_path alone and returns, and unarchive
\* skips the entries whose file exists and still unpacks the others.
C8_NoOverwriteWithoutForce ==
    [][ (last'.op \in {"archive", "unarchive", "unarchive_command"}
            /\ ~last'.force) =>
          /\ \A p \in DOMAIN fs :
               IsFile(fs, p) => (IsFile(fs', p) /\ fs'[p] = fs[p])
          /\ (last'.op = "archive" /\ IsFile(fs, last'.out)) =>
               (last'.status = "skipped" /\ fs' = fs)
          /\ (last'.op = "unarchive" /\ ~last'.dry_run
                /\ Extractable(fs, last'.paths[1])) =>
               LET arch == last'.paths[1]
                   data == fs[arch].data
                   toc == ReadToc(data).entries
               IN  /\ last'.status = "ok"
                   /\ \A j \in 1..Len(toc) :
                        /\ IsFile(fs', Dest(arch, toc[j]))
                        /\ ( /\ ~IsFile(fs, Dest(arch, toc[j]))
                             /\ \A k \in 1..(j - 1) :
                                  toc[k].file_name # toc[j].file_name )
                           => fs'[Dest(arch, toc[j])].data
                                = EntryPayload(data, toc[j])
      ]_vars

C8_Witness ==
    /\ last.op = "unarchive" /\ ~last.force /\ ~last.dry_run
    /\ last.status = "ok"
    /\ last.paths = <<XPath>>
    /\ IsFile(fs, XPath)
    /\ ReadToc(fs[XPath].data).status = "ok"
    /\ Len(ReadToc(fs[XPath].data).entries) = 2
    /\ ReadToc(fs[XPath].data).entries[1].file_name = <<97>>
    /\ IsFile(fs, StalePath) /\ fs[StalePath].data = Stale
    /\ IsFile(fs, Dest(XPath, ReadToc(fs[XPath].data).entries[2]))
    /\ Dest(XPath, ReadToc(fs[XPath].data).entries[2]) # StalePath

\* C9: a built archive never holds a record whose file_name was shortened:
\* every record carries the whole base name of its input.
C9_NoTruncatedField ==
    ArchiveOk =>
        \A i \in 1..Len(last.paths) :
            WrittenEntry(fs[last.out].data, Len(last.paths), i).file_name
                = name(last.paths[i])

\* C10: unarchive of an archive whose header puts the table of contents
\* before byte 16 fails, and nothing is unpacked.
C10_TocOffsetValidated ==
    [][ (last'.op = "unarchive" /\ IsFile(fs, last'.paths[1])) =>
          LET data == fs[last'.paths[1]].data
              h == HeaderDecode(
                       Slice(data, 0, NresArchiveMetadata_METADATA_SIZE))
          IN  ( /\ h.status = "ok"
                /\ h.archive_size
                     - h.file_count * ArchivedFileMetadata_METADATA_SIZE
                       < NresArchiveMetadata_METADATA_SIZE )
              => (last'.status # "ok" /\ fs' = fs)
      ]_vars

====
